---- MODULE Spec2Model ----
(***************************************************************************)
(* Lifetime model of nova::server_node (source/server/node_types.hpp).    *)
(*                                                                         *)
(* One node is followed from construction to destruction.  The node's      *)
(* fields keep their source names.  The callers are the single structural  *)
(* writer (set_parent, clear_parent, pause, resume, reset_id) and a second *)
(* context; both hold boost::intrusive_ptr handles to the node.            *)
(* use_count_ is a boost::detail::atomic_count: ++ and -- are single       *)
(* atomic steps, everything around them interleaves.                       *)
(*                                                                         *)
(* Two further parts follow the lifetime model: several nodes kept in a    *)
(* set ordered by operator< (the id index of the node graph), and the      *)
(* node pool with operator new, operator delete and server_node_allocator. *)
(***************************************************************************)
EXTENDS Integers, Sequences, FiniteSets

\* ---- bounds of the model ----
MaxHandles == 1      \* handles one context holds at a time
MaxCount == 3        \* cap on use_count_ going up
MaxDeficit == 2      \* cap on use_count_ going below zero
MinCount == 0 - MaxDeficit
MaxId == 3           \* node ids are 1..MaxId
NumGroups == 2       \* groups a node can be linked into
MaxDestroyed == 2    \* cap on the number of destructor runs followed
NumSlots == 2        \* nodes the node graph holds at a time
MaxElems == 3        \* largest element count asked of the allocator adapter
MaxElemSize == 3     \* largest sizeof(T) and sizeof of a node, in pool units
Capacity == 4        \* size of the pool (static_pool<1024*1024*8>), in pool units

\* ---- program constants ----
NullGroup == 0       \* parent_(0): the null abstract_group pointer
Null == 0            \* the null pointer an allocation can return

Writer == "w"
Client == "c"
Ctx == {Writer, Client}
Groups == 1..NumGroups
Ids == 1..MaxId
CountRange == MinCount..MaxCount

VARIABLES
    ndebug,      \* TRUE iff the build defines NDEBUG (assert compiled out)
    node_id,     \* server_node::node_id
    synth_,      \* server_node::synth_
    running_,    \* server_node::running_
    parent_,     \* server_node::parent_
    use_count_,  \* server_node::use_count_
    handles,     \* per context: server_node_ptr objects pointing at the node
    pc,          \* per context: position inside set_parent/clear_parent/release
    sp_parent,   \* argument of the set_parent call in progress
    destroyed,   \* number of completed runs of ~server_node on the storage
    in_pool,     \* TRUE iff the node's block has been given back to the pool
    fault,       \* "none", or the reason the process was terminated
    flag_ops,    \* the last two pause/resume calls, oldest first
    trip,        \* <<use_count_ at entry>> of a set_parent made on an unparented
                 \* node with a handle outstanding, until clear_parent or a
                 \* handle operation follows; <<>> otherwise
    \* -- the node graph around the nodes: several nodes and the id index --
    nodes,       \* per slot of the node pool: the server_node built there
    index,       \* in-order traversal of the set ordered by operator<
    mgr,         \* the graph manager's position inside a re-identify
    \* -- the node pool and the allocator adapter --
    pool,        \* the allocated blocks: records [at, size]
    arena_nodes, \* per address: use_count_ of the node built there, 0 for none
    ret,         \* what the last allocator call returned
    last_freed   \* size of the block freed last, 0 after the next allocation

lifeVars == <<ndebug, node_id, synth_, running_, parent_, use_count_, handles,
              pc, sp_parent, destroyed, in_pool, fault, flag_ops, trip>>

orderVars == <<nodes, index, mgr>>

arenaVars == <<pool, arena_nodes, ret, last_freed>>

vars == <<lifeVars, orderVars, arenaVars>>

nodeFields == <<node_id, synth_, running_, parent_, use_count_>>

\* ---- method bodies as functions of the fields they touch ----

\* an add_ref that counts the new reference twice
add_ref_twice(u) == u + 2

\* add_ref: ++use_count_
add_ref(u) == u + 1

\* release: --use_count_ ; the value the comparison with 0 sees
release(u) == u - 1

\* a pause that toggles the flag instead of clearing it
pause_toggle(r) == ~r

\* pause: running_ = false
pause(r) == FALSE

\* resume: running_ = true
resume(r) == TRUE

\* reset_id: node_id = new_id
reset_id(old, new) == new

\* is_running
is_running == running_

\* get_parent
get_parent == parent_

\* id
id == node_id

\* is_synth
is_synth == synth_

TotalHandles == handles[Writer] + handles[Client]

\* the raw pointer to the node is valid and the process is running
Live == destroyed = 0 /\ fault = "none"

\* What a read of a field yields.  Once the destructor has run and the block
\* is back in the pool the object is gone: a handle or a call still in
\* progress that touches it reads whatever the block holds by then.
ReadCount == IF destroyed > 0 THEN CountRange ELSE {use_count_}

ReadParent == IF destroyed > 0 THEN {NullGroup} \cup Groups ELSE {parent_}

Last2(s) == IF Len(s) <= 2 THEN s ELSE SubSeq(s, Len(s) - 1, Len(s))

\* ---- the parts that are at rest while one node's lifetime is followed ----
Slots == 1..NumSlots

Addrs == 1..Capacity

\* size: for an allocation, the size asked of the pool;
\* freed_before: the size of the block freed just before it
NoRet == [op |-> "none", status |-> "none", val |-> Null, eq |-> FALSE, ne |-> FALSE,
          size |-> 0, freed_before |-> 0]

NoNode == [live |-> FALSE, node_id |-> 0, synth_ |-> FALSE, running_ |-> FALSE,
           parent_ |-> NullGroup, use_count_ |-> 0]

OrderIdle ==
    /\ nodes = [s \in Slots |-> NoNode]
    /\ index = <<>>
    /\ mgr = [pc |-> "idle", slot |-> 0, new_id |-> 0, err |-> FALSE]

ArenaIdle ==
    /\ pool = {}
    /\ arena_nodes = [a \in Addrs |-> 0]
    /\ ret = NoRet
    /\ last_freed = 0

\* ---- construction ----
\* server_node(node_id, type): running_(true), parent_(0), use_count_(0)
Init ==
    /\ ndebug \in BOOLEAN
    /\ node_id \in Ids
    /\ synth_ \in BOOLEAN
    /\ running_ = TRUE
    /\ parent_ = NullGroup
    /\ use_count_ = 0
    /\ handles = [c \in Ctx |-> 0]
    /\ pc = [c \in Ctx |-> "idle"]
    /\ sp_parent = NullGroup
    /\ destroyed = 0
    /\ in_pool = FALSE
    /\ fault = "none"
    /\ flag_ops = <<>>
    /\ trip = <<>>
    /\ OrderIdle
    /\ ArenaIdle

\* ---- handles (boost::intrusive_ptr<server_node>) ----

\* server_node_ptr(p) from a raw pointer: intrusive_ptr_add_ref(p)
HandleCreate(c) ==
    /\ Live
    /\ pc[c] = "idle"
    /\ handles[c] < MaxHandles
    /\ use_count_ < MaxCount
    /\ handles' = [handles EXCEPT ![c] = @ + 1]
    /\ use_count_' = add_ref(use_count_)
    /\ trip' = <<>>
    /\ UNCHANGED <<orderVars, arenaVars>>
    /\ UNCHANGED <<ndebug, node_id, synth_, running_, parent_, pc, sp_parent,
                   destroyed, in_pool, fault, flag_ops>>

\* copy of a handle held by context d: intrusive_ptr_add_ref(px)
HandleCopy(c, d) ==
    /\ fault = "none"
    /\ pc[c] = "idle"
    /\ handles[d] > 0
    /\ handles[c] < MaxHandles
    /\ handles' = [handles EXCEPT ![c] = @ + 1]
    /\ \E u \in ReadCount :
         /\ u < MaxCount
         /\ use_count_' = add_ref(u)
    /\ trip' = <<>>
    /\ UNCHANGED <<orderVars, arenaVars>>
    /\ UNCHANGED <<ndebug, node_id, synth_, running_, parent_, pc, sp_parent,
                   destroyed, in_pool, fault, flag_ops>>

\* drop/reset of a handle: intrusive_ptr_release(px), up to the decrement
HandleDrop(c) ==
    /\ fault = "none"
    /\ pc[c] = "idle"
    /\ handles[c] > 0
    /\ handles' = [handles EXCEPT ![c] = @ - 1]
    /\ \E u \in ReadCount :
         /\ u > MinCount
         /\ use_count_' = release(u)
         /\ pc' = [pc EXCEPT ![c] = IF release(u) = 0 THEN "delete" ELSE "idle"]
    /\ trip' = <<>>
    /\ UNCHANGED <<orderVars, arenaVars>>
    /\ UNCHANGED <<ndebug, node_id, synth_, running_, parent_, sp_parent,
                   destroyed, in_pool, fault, flag_ops>>

\* release: delete this  (~server_node: assert(parent_ == 0); operator delete: free(p))
Delete(c) ==
    /\ fault = "none"
    /\ pc[c] = "delete"
    /\ destroyed < MaxDestroyed
    /\ \E g \in ReadParent :
         IF g # NullGroup /\ ~ndebug
         THEN /\ fault' = "dtor_assert"
              /\ UNCHANGED <<pc, destroyed, in_pool>>
         ELSE \/ /\ destroyed' = destroyed + 1
                 /\ in_pool' = TRUE
                 /\ pc' = [pc EXCEPT ![c] = "idle"]
                 /\ fault' = "none"
              \/ \* the object is already gone: the virtual call may crash
                 /\ destroyed > 0
                 /\ fault' = "crash"
                 /\ UNCHANGED <<pc, destroyed, in_pool>>
    /\ trip' = <<>>
    /\ UNCHANGED <<orderVars, arenaVars>>
    /\ UNCHANGED <<ndebug, node_id, synth_, running_, parent_, use_count_,
                   handles, sp_parent, flag_ops>>

\* ---- set_parent ----

\* set_parent: add_ref();
SetParentAddRef(p) ==
    /\ Live
    /\ pc[Writer] = "idle"
    /\ use_count_ < MaxCount
    /\ use_count_' = add_ref(use_count_)
    /\ sp_parent' = p
    /\ pc' = [pc EXCEPT ![Writer] = "sp_assert"]
    /\ trip' = IF parent_ = NullGroup /\ TotalHandles >= 1 THEN <<use_count_>> ELSE <<>>
    /\ UNCHANGED <<orderVars, arenaVars>>
    /\ UNCHANGED <<ndebug, node_id, synth_, running_, parent_, handles,
                   destroyed, in_pool, fault, flag_ops>>

\* a set_parent whose precondition check never fires
SetParentAssert_unchecked ==
    /\ fault = "none"
    /\ pc[Writer] = "sp_assert"
    /\ pc' = [pc EXCEPT ![Writer] = "sp_assign"]
    /\ UNCHANGED trip
    /\ UNCHANGED <<orderVars, arenaVars>>
    /\ UNCHANGED <<ndebug, node_id, synth_, running_, parent_, use_count_,
                   handles, sp_parent, destroyed, in_pool, fault, flag_ops>>

\* set_parent: assert(parent_ == 0);
SetParentAssert ==
    /\ fault = "none"
    /\ pc[Writer] = "sp_assert"
    /\ \E g \in ReadParent :
         IF g = NullGroup \/ ndebug
         THEN pc' = [pc EXCEPT ![Writer] = "sp_assign"] /\ fault' = "none"
         ELSE fault' = "set_parent_assert" /\ pc' = pc
    /\ UNCHANGED trip
    /\ UNCHANGED <<orderVars, arenaVars>>
    /\ UNCHANGED <<ndebug, node_id, synth_, running_, parent_, use_count_,
                   handles, sp_parent, destroyed, in_pool, flag_ops>>

\* set_parent: parent_ = parent;
SetParentAssign ==
    /\ fault = "none"
    /\ pc[Writer] = "sp_assign"
    /\ parent_' = sp_parent
    /\ sp_parent' = NullGroup
    /\ pc' = [pc EXCEPT ![Writer] = "idle"]
    /\ UNCHANGED trip
    /\ UNCHANGED <<orderVars, arenaVars>>
    /\ UNCHANGED <<ndebug, node_id, synth_, running_, use_count_, handles,
                   destroyed, in_pool, fault, flag_ops>>

\* ---- clear_parent ----

\* a clear_parent that has not cleared parent_ by the time it releases
ClearParentNull_late ==
    /\ Live
    /\ pc[Writer] = "idle"
    /\ pc' = [pc EXCEPT ![Writer] = "cp_release"]
    /\ UNCHANGED <<orderVars, arenaVars>>
    /\ UNCHANGED <<ndebug, node_id, synth_, running_, parent_, use_count_,
                   handles, sp_parent, destroyed, in_pool, fault, flag_ops,
                   trip>>

\* clear_parent: parent_ = 0;
ClearParentNull ==
    /\ Live
    /\ pc[Writer] = "idle"
    /\ parent_' = NullGroup
    /\ pc' = [pc EXCEPT ![Writer] = "cp_release"]
    /\ UNCHANGED trip
    /\ UNCHANGED <<orderVars, arenaVars>>
    /\ UNCHANGED <<ndebug, node_id, synth_, running_, use_count_, handles,
                   sp_parent, destroyed, in_pool, fault, flag_ops>>

\* clear_parent: release();  up to the decrement
ClearParentRelease ==
    /\ fault = "none"
    /\ pc[Writer] = "cp_release"
    /\ \E u \in ReadCount :
         /\ u > MinCount
         /\ use_count_' = release(u)
         /\ pc' = [pc EXCEPT ![Writer] = IF release(u) = 0 THEN "delete" ELSE "idle"]
    /\ trip' = <<>>
    /\ UNCHANGED <<orderVars, arenaVars>>
    /\ UNCHANGED <<ndebug, node_id, synth_, running_, parent_, handles,
                   sp_parent, destroyed, in_pool, fault, flag_ops>>

\* ---- running flag and id ----

\* a resume that also takes the node out of its group
Resume_unlinking ==
    /\ Live
    /\ pc[Writer] = "idle"
    /\ running_' = resume(running_)
    /\ parent_' = NullGroup
    /\ flag_ops' = Last2(Append(flag_ops, "resume"))
    /\ UNCHANGED trip
    /\ UNCHANGED <<orderVars, arenaVars>>
    /\ UNCHANGED <<ndebug, node_id, synth_, use_count_, handles, pc,
                   sp_parent, destroyed, in_pool, fault>>

Pause ==
    /\ Live
    /\ pc[Writer] = "idle"
    /\ running_' = pause(running_)
    /\ flag_ops' = Last2(Append(flag_ops, "pause"))
    /\ UNCHANGED trip
    /\ UNCHANGED <<orderVars, arenaVars>>
    /\ UNCHANGED <<ndebug, node_id, synth_, parent_, use_count_, handles, pc,
                   sp_parent, destroyed, in_pool, fault>>

Resume ==
    /\ Live
    /\ pc[Writer] = "idle"
    /\ running_' = resume(running_)
    /\ flag_ops' = Last2(Append(flag_ops, "resume"))
    /\ UNCHANGED trip
    /\ UNCHANGED <<orderVars, arenaVars>>
    /\ UNCHANGED <<ndebug, node_id, synth_, parent_, use_count_, handles, pc,
                   sp_parent, destroyed, in_pool, fault>>

ResetId(new) ==
    /\ Live
    /\ pc[Writer] = "idle"
    /\ node_id' = reset_id(node_id, new)
    /\ UNCHANGED trip
    /\ UNCHANGED <<orderVars, arenaVars>>
    /\ UNCHANGED <<ndebug, synth_, running_, parent_, use_count_, handles, pc,
                   sp_parent, destroyed, in_pool, fault, flag_ops>>

Next ==
    \/ \E c \in Ctx : HandleCreate(c)
    \/ \E c \in Ctx, d \in Ctx : HandleCopy(c, d)
    \/ \E c \in Ctx : HandleDrop(c)
    \/ \E c \in Ctx : Delete(c)
    \/ \E p \in Groups : SetParentAddRef(p)
    \/ SetParentAssert
    \/ SetParentAssign
    \/ ClearParentNull
    \/ ClearParentRelease
    \/ Pause
    \/ Resume
    \/ \E new \in Ids : ResetId(new)

Spec == Init /\ [][Next]_vars

\* ---- calls made one after the other ----
\* every call runs to its return before the next call starts
OthersIdle(c) == \A d \in Ctx \ {c} : pc[d] = "idle"

Quiescent == \A c \in Ctx : pc[c] = "idle"

SeqNext ==
    \/ \E c \in Ctx : OthersIdle(c) /\ HandleCreate(c)
    \/ \E c \in Ctx, d \in Ctx : OthersIdle(c) /\ HandleCopy(c, d)
    \/ \E c \in Ctx : OthersIdle(c) /\ HandleDrop(c)
    \/ \E c \in Ctx : OthersIdle(c) /\ Delete(c)
    \/ \E p \in Groups : OthersIdle(Writer) /\ SetParentAddRef(p)
    \/ OthersIdle(Writer) /\ SetParentAssert
    \/ OthersIdle(Writer) /\ SetParentAssign
    \/ OthersIdle(Writer) /\ ClearParentNull
    \/ OthersIdle(Writer) /\ ClearParentRelease
    \/ OthersIdle(Writer) /\ Pause
    \/ OthersIdle(Writer) /\ Resume
    \/ \E new \in Ids : OthersIdle(Writer) /\ ResetId(new)

SpecSeq == Init /\ [][SeqNext]_vars

\* ---- racing decrements ----
\* the node starts with every reference accounted for: one per handle and
\* one for the parent; from there the contexts only give references up
HeldBy(h, p) == h[Writer] + h[Client] + (IF p # NullGroup THEN 1 ELSE 0)

InitRace ==
    /\ ndebug \in BOOLEAN
    /\ node_id \in Ids
    /\ synth_ \in BOOLEAN
    /\ running_ = TRUE
    /\ parent_ \in {NullGroup} \cup Groups
    /\ handles \in [Ctx -> 0..MaxHandles]
    /\ use_count_ = HeldBy(handles, parent_)
    /\ use_count_ <= MaxCount
    /\ pc = [c \in Ctx |-> "idle"]
    /\ sp_parent = NullGroup
    /\ destroyed = 0
    /\ in_pool = FALSE
    /\ fault = "none"
    /\ flag_ops = <<>>
    /\ trip = <<>>
    /\ OrderIdle
    /\ ArenaIdle

RaceNext ==
    \/ \E c \in Ctx : HandleDrop(c)
    \/ \E c \in Ctx : Delete(c)
    \/ ClearParentNull
    \/ ClearParentRelease

SpecRace == InitRace /\ [][RaceNext]_vars

TypeOK ==
    /\ ndebug \in BOOLEAN
    /\ node_id \in Ids
    /\ synth_ \in BOOLEAN
    /\ running_ \in BOOLEAN
    /\ parent_ \in {NullGroup} \cup Groups
    /\ use_count_ \in CountRange
    /\ handles \in [Ctx -> 0..MaxHandles]
    /\ pc \in [Ctx -> {"idle", "sp_assert", "sp_assign", "cp_release", "delete"}]
    /\ sp_parent \in {NullGroup} \cup Groups
    /\ destroyed \in 0..MaxDestroyed
    /\ in_pool \in BOOLEAN
    /\ fault \in {"none", "set_parent_assert", "dtor_assert", "crash"}
    /\ Len(flag_ops) <= 2
    /\ Len(trip) <= 1

\* ======================= the id order and the id index =======================

\* -- server_node seen as a value: one record per node --

\* an operator== that also looks at the kind of the node
eq_kind(a, b) == a.node_id = b.node_id /\ a.synth_ = b.synth_

\* operator== (server_node const &, server_node const &)
eq(a, b) == a.node_id = b.node_id

\* an operator< that orders by kind first, then by id
lt_kind_first(a, b) ==
    \/ (~a.synth_ /\ b.synth_)
    \/ (a.synth_ = b.synth_ /\ a.node_id < b.node_id)

\* operator< (server_node const &, server_node const &)
lt(a, b) == a.node_id < b.node_id

\* server_node(node_id, type)
server_node(new_id, type) ==
    [live |-> TRUE, node_id |-> new_id, synth_ |-> type, running_ |-> TRUE,
     parent_ |-> NullGroup, use_count_ |-> 0]

\* set_parent on the record of a node
node_set_parent(n, p) == [n EXCEPT !.use_count_ = add_ref(@), !.parent_ = p]

\* clear_parent on the record of a node, up to the comparison with 0
node_clear_parent(n) == [n EXCEPT !.parent_ = NullGroup, !.use_count_ = release(@)]

\* a pause that also overwrites the id
node_pause_rekey(n) == [n EXCEPT !.running_ = FALSE, !.node_id = 1]

\* pause on the record of a node
node_pause(n) == [n EXCEPT !.running_ = pause(@)]

\* resume on the record of a node
node_resume(n) == [n EXCEPT !.running_ = resume(@)]

\* reset_id on the record of a node
node_reset_id(n, new_id) == [n EXCEPT !.node_id = reset_id(@, new_id)]

\* -- the index: a set of nodes ordered by operator<, kept by the graph manager --

LiveSlots == {s \in Slots : nodes[s].live}

Indexed == {index[i] : i \in 1..Len(index)}

\* the key a lookup by id compares the nodes against
Probe(i) == [NoNode EXCEPT !.node_id = i]

\* lookup by id: the nodes neither less nor greater than the key
Find(i) == {s \in Indexed : ~lt(nodes[s], Probe(i)) /\ ~lt(Probe(i), nodes[s])}

\* ordered insertion of slot s, holding node n, before the first greater node
IndexInsert(seq, nd, s, n) ==
    LET greater == {i \in 1..Len(seq) : lt(n, nd[seq[i]])}
        at == IF greater = {} THEN Len(seq) + 1
              ELSE CHOOSE i \in greater : \A j \in greater : i <= j
    IN  SubSeq(seq, 1, at - 1) \o <<s>> \o SubSeq(seq, at, Len(seq))

IndexErase(seq, s) == SelectSeq(seq, LAMBDA x : x # s)

MgrIdle(err) == [pc |-> "idle", slot |-> 0, new_id |-> 0, err |-> err]

\* the single node of the lifetime model stays as constructed
LifeRest ==
    /\ ndebug = FALSE
    /\ node_id = 1
    /\ synth_ = TRUE
    /\ running_ = TRUE
    /\ parent_ = NullGroup
    /\ use_count_ = 0
    /\ handles = [c \in Ctx |-> 0]
    /\ pc = [c \in Ctx |-> "idle"]
    /\ sp_parent = NullGroup
    /\ destroyed = 0
    /\ in_pool = FALSE
    /\ fault = "none"
    /\ flag_ops = <<>>
    /\ trip = <<>>

InitOrder == LifeRest /\ OrderIdle /\ ArenaIdle

\* create: look the id up, build the node in the first free storage, enter it
\* in the index, link it
CreateNode(s, new_id, type, g) ==
    /\ mgr.pc = "idle"
    /\ ~nodes[s].live
    /\ \A t \in Slots : (t < s) => nodes[t].live
    /\ IF Find(new_id) # {}
       THEN /\ mgr' = MgrIdle(TRUE)
            /\ UNCHANGED <<nodes, index>>
       ELSE LET n == node_set_parent(server_node(new_id, type), g)
            IN  /\ nodes' = [nodes EXCEPT ![s] = n]
                /\ index' = IndexInsert(index, nodes, s, n)
                /\ mgr' = MgrIdle(FALSE)
    /\ UNCHANGED <<lifeVars, arenaVars>>

\* remove: take the node out of the index and unlink it; the parent's
\* reference was the last one, so release destroys the node
RemoveNode(s) ==
    /\ mgr.pc = "idle"
    /\ s \in Indexed
    /\ LET n == node_clear_parent(nodes[s])
       IN  nodes' = [nodes EXCEPT ![s] = IF n.use_count_ = 0 THEN NoNode ELSE n]
    /\ index' = IndexErase(index, s)
    /\ mgr' = MgrIdle(FALSE)
    /\ UNCHANGED <<lifeVars, arenaVars>>

PauseNode(s) ==
    /\ mgr.pc = "idle"
    /\ nodes[s].live
    /\ nodes' = [nodes EXCEPT ![s] = node_pause(@)]
    /\ UNCHANGED <<index, mgr, lifeVars, arenaVars>>

ResumeNode(s) ==
    /\ mgr.pc = "idle"
    /\ nodes[s].live
    /\ nodes' = [nodes EXCEPT ![s] = node_resume(@)]
    /\ UNCHANGED <<index, mgr, lifeVars, arenaVars>>

\* re-identify, first step: look the new id up, take the node out of the index
ReidRemove(s, new_id) ==
    /\ mgr.pc = "idle"
    /\ s \in Indexed
    /\ IF Find(new_id) # {}
       THEN /\ mgr' = MgrIdle(TRUE)
            /\ UNCHANGED index
       ELSE /\ index' = IndexErase(index, s)
            /\ mgr' = [pc |-> "rekey", slot |-> s, new_id |-> new_id, err |-> FALSE]
    /\ UNCHANGED <<nodes, lifeVars, arenaVars>>

\* re-identify, second step: reset_id(new_id)
ReidRekey ==
    /\ mgr.pc = "rekey"
    /\ nodes' = [nodes EXCEPT ![mgr.slot] = node_reset_id(@, mgr.new_id)]
    /\ mgr' = [mgr EXCEPT !.pc = "insert"]
    /\ UNCHANGED <<index, lifeVars, arenaVars>>

\* re-identify, third step: enter the node in the index under the new id
ReidInsert ==
    /\ mgr.pc = "insert"
    /\ index' = IndexInsert(index, nodes, mgr.slot, nodes[mgr.slot])
    /\ mgr' = MgrIdle(FALSE)
    /\ UNCHANGED <<nodes, lifeVars, arenaVars>>

OrderNext ==
    \/ \E s \in Slots, i \in Ids, type \in BOOLEAN, g \in Groups : CreateNode(s, i, type, g)
    \/ \E s \in Slots : RemoveNode(s)
    \/ \E s \in Slots : PauseNode(s)
    \/ \E s \in Slots : ResumeNode(s)
    \/ \E s \in Slots, i \in Ids : ReidRemove(s, i)
    \/ ReidRekey
    \/ ReidInsert

SpecOrder == InitOrder /\ [][OrderNext]_vars

OrderTypeOK ==
    /\ \A s \in Slots : nodes[s] = NoNode \/
          /\ nodes[s].live
          /\ nodes[s].node_id \in Ids
          /\ nodes[s].parent_ \in {NullGroup} \cup Groups
          /\ nodes[s].use_count_ \in CountRange
    /\ Indexed \subseteq LiveSlots
    /\ mgr.pc \in {"idle", "rekey", "insert"}

\* ======================= the node pool and the allocator adapter =======================

ElemSizes == 1..MaxElemSize

\* -- the pool behind server_node::allocate and server_node::free --

Cells(b) == b.at..(b.at + b.size - 1)

RECURSIVE SumSizes(_)
SumSizes(S) ==
    IF S = {} THEN 0
    ELSE LET b == CHOOSE x \in S : TRUE IN b.size + SumSizes(S \ {b})

\* total of the live allocations
Used == SumSizes(pool)

BlockAt(pl, p) == CHOOSE b \in pl : b.at = p

Starts(pl) == {b.at : b \in pl}

\* the places where a block of the size fits
Fits(pl, size) ==
    {a \in Addrs : /\ a + size - 1 <= Capacity
                   /\ \A b \in pl : Cells(b) \cap (a..(a + size - 1)) = {}}

\* server_node::allocate(size): the first place that fits, null if there is none
pool_malloc(pl, size) ==
    IF Fits(pl, size) = {} THEN Null
    ELSE CHOOSE a \in Fits(pl, size) : \A x \in Fits(pl, size) : a <= x

pool_take(pl, p, size) == pl \cup {[at |-> p, size |-> size]}

\* server_node::free(p)
pool_free(pl, p) == {b \in pl : b.at # p}

\* pool.get_max_size()
pool_get_max_size == Capacity

\* -- the code of node_types.hpp over the pool --

\* server_node::get_max_size()
get_max_size == pool_get_max_size

\* server_node_allocator<T>::max_size(), T given by its size
max_size(T) == get_max_size

\* operator!= (server_node_allocator<T> const &, server_node_allocator<U> const &)
allocator_ne(T, U) == TRUE

\* operator== (server_node_allocator<T> const &, server_node_allocator<U> const &)
allocator_eq(T, U) == ~allocator_ne(T, U)

\* an operator delete that keeps the storage
operator_delete_leak(pl, p) == pl

\* server_node::operator delete(p)
operator_delete(pl, p) == pool_free(pl, p)

InitArena == LifeRest /\ OrderIdle /\ ArenaIdle

\* an allocate that hands the null pointer on
AdapterAllocate_null(n, T) ==
    LET p == pool_malloc(pool, n * T)
    IN  /\ pool' = IF p = Null THEN pool ELSE pool_take(pool, p, n * T)
        /\ ret' = [NoRet EXCEPT !.op = "allocate", !.status = "ok", !.val = p,
                                !.size = n * T, !.freed_before = last_freed]
        /\ last_freed' = 0
        /\ UNCHANGED <<arena_nodes, lifeVars, orderVars>>

\* server_node_allocator<T>::allocate(n)
AdapterAllocate(n, T) ==
    LET p == pool_malloc(pool, n * T)
    IN  /\ IF p = Null
           THEN /\ ret' = [NoRet EXCEPT !.op = "allocate", !.status = "bad_alloc",
                                        !.size = n * T,
                                        !.freed_before = last_freed]
                /\ UNCHANGED pool
           ELSE /\ ret' = [NoRet EXCEPT !.op = "allocate", !.status = "ok", !.val = p,
                                        !.size = n * T,
                                        !.freed_before = last_freed]
                /\ pool' = pool_take(pool, p, n * T)
        /\ last_freed' = 0
        /\ UNCHANGED <<arena_nodes, lifeVars, orderVars>>

\* server_node_allocator<T>::deallocate(p, n), on storage holding no node
AdapterDeallocate(p) ==
    /\ p \in Starts(pool)
    /\ arena_nodes[p] = 0
    /\ pool' = pool_free(pool, p)
    /\ ret' = [NoRet EXCEPT !.op = "deallocate", !.status = "ok", !.val = p]
    /\ last_freed' = BlockAt(pool, p).size
    /\ UNCHANGED <<arena_nodes, lifeVars, orderVars>>

\* server_node_allocator<T>::max_size()
MaxSize(T) ==
    /\ ret' = [NoRet EXCEPT !.op = "max_size", !.status = "ok", !.val = max_size(T)]
    /\ UNCHANGED <<pool, arena_nodes, last_freed, lifeVars, orderVars>>

\* a == b and a != b on two adapters
AllocatorCompare(T, U) ==
    /\ ret' = [NoRet EXCEPT !.op = "compare", !.status = "ok",
                            !.eq = allocator_eq(T, U), !.ne = allocator_ne(T, U)]
    /\ UNCHANGED <<pool, arena_nodes, last_freed, lifeVars, orderVars>>

\* new of a node of the size: operator new, then the constructor and set_parent
NodeNew(size) ==
    LET p == pool_malloc(pool, size)
    IN  /\ IF p = Null
           THEN /\ ret' = [NoRet EXCEPT !.op = "new", !.status = "null",
                                        !.size = size,
                                        !.freed_before = last_freed]
                /\ UNCHANGED <<pool, arena_nodes>>
           ELSE /\ ret' = [NoRet EXCEPT !.op = "new", !.status = "ok", !.val = p,
                                        !.size = size,
                                        !.freed_before = last_freed]
                /\ pool' = pool_take(pool, p, size)
                /\ arena_nodes' = [arena_nodes EXCEPT ![p] = add_ref(0)]
        /\ last_freed' = 0
        /\ UNCHANGED <<lifeVars, orderVars>>

\* intrusive_ptr_add_ref on a node of the pool
NodeAddRef(p) ==
    /\ arena_nodes[p] \in 1..MaxHandles
    /\ arena_nodes' = [arena_nodes EXCEPT ![p] = add_ref(@)]
    /\ UNCHANGED <<pool, ret, last_freed, lifeVars, orderVars>>

\* intrusive_ptr_release on a node of the pool: delete this at 0
NodeRelease(p) ==
    /\ arena_nodes[p] > 0
    /\ arena_nodes' = [arena_nodes EXCEPT ![p] = release(@)]
    /\ IF release(arena_nodes[p]) = 0
       THEN /\ pool' = operator_delete(pool, p)
            /\ last_freed' = BlockAt(pool, p).size
            /\ ret' = [NoRet EXCEPT !.op = "delete", !.status = "ok", !.val = p]
       ELSE UNCHANGED <<pool, last_freed, ret>>
    /\ UNCHANGED <<lifeVars, orderVars>>

ArenaNext ==
    \/ \E n \in 1..MaxElems, T \in ElemSizes : AdapterAllocate(n, T)
    \/ \E p \in Addrs : AdapterDeallocate(p)
    \/ \E T \in ElemSizes : MaxSize(T)
    \/ \E T \in ElemSizes, U \in ElemSizes : AllocatorCompare(T, U)
    \/ \E size \in ElemSizes : NodeNew(size)
    \/ \E p \in Addrs : NodeAddRef(p)
    \/ \E p \in Addrs : NodeRelease(p)

SpecArena == InitArena /\ [][ArenaNext]_vars

ArenaTypeOK ==
    /\ \A b \in pool : b.at \in Addrs /\ b.size \in 1..Capacity
    /\ \A a \in Addrs : arena_nodes[a] \in 0..(1 + MaxHandles)
    /\ last_freed \in 0..Capacity
    /\ ret.val \in {Null} \cup Addrs

\* ======================= claims =======================

Deleting == {c \in Ctx : pc[c] = "delete"}

\* C1: over every sequence of handle create/copy/drop, set_parent and
\* clear_parent calls the node is destroyed at most once, only by a context
\* whose decrement has just reached 0, and never while parent_ is non-null
\* (the destructor's assertion never fails).
C1_DestroyedOnceUnlinked ==
    [][ /\ (destroyed' # destroyed =>
               /\ destroyed = 0
               /\ Deleting # {}
               /\ use_count_ = 0
               /\ parent_ = NullGroup)
        /\ fault' # "dtor_assert" ]_vars

\* C2: whenever no call is in progress on a live node, use_count_ is >= 0
\* and equals the number of outstanding handles plus one if parent_ is
\* non-null.
C2_CountIsHandlesPlusParent ==
    (Live /\ Quiescent) =>
        /\ use_count_ >= 0
        /\ use_count_ = HeldBy(handles, parent_)

\* C3: while at least one handle is outstanding the node is not destroyed
\* and use_count_ >= 1, whatever calls are made, clear_parent on an
\* unparented node included.
C3_HandleKeepsNodeAlive ==
    (TotalHandles >= 1 /\ fault = "none") =>
        /\ destroyed = 0
        /\ use_count_ >= 1

\* C4: when several contexts decrement the count of the same node, exactly
\* one decrement sees the transition to 0 and the node is destroyed exactly
\* once; a decrement made after the count is already 0 does not trigger
\* destruction again.
C4_OneDecrementDestroys ==
    /\ destroyed <= 1
    /\ Cardinality(Deleting) + destroyed <= 1

\* C5: set_parent on a node whose parent_ is already non-null never
\* silently succeeds: it ends in the fatal assertion failure and the
\* existing parent is not overwritten.
C5_SetParentTwiceIsFatal ==
    [][ (destroyed = 0 /\ parent_ # NullGroup /\ SetParentAssert) =>
        (fault' = "set_parent_assert" /\ parent_' = parent_) ]_vars

\* C5 (amended): in a build with assertions enabled, set_parent on a node
\* whose parent_ is already non-null ends in the fatal assertion failure,
\* and a non-null parent_ of a live node is never overwritten by another
\* group.
C5_SetParentTwiceIsFatalInDebug ==
    [][ ~ndebug =>
        /\ (destroyed = 0 /\ parent_ # NullGroup /\ SetParentAssert) =>
           (fault' = "set_parent_assert" /\ parent_' = parent_)
        /\ (destroyed = 0 /\ parent_ # NullGroup) =>
           parent_' \in {parent_, NullGroup} ]_vars

C5_Witness ==
    /\ ~ndebug
    /\ fault = "set_parent_assert"
    /\ parent_ # NullGroup
    /\ sp_parent # parent_

\* C6: in every state of a live node, the states inside set_parent and
\* clear_parent included, parent_ non-null implies use_count_ >= 1.
C6_ParentedHasReference ==
    (destroyed = 0 /\ parent_ # NullGroup) => use_count_ >= 1

\* C7: a decrement that brings use_count_ to 0 is followed, in the same
\* call, by the destruction of the node and the return of its storage to
\* the pool.
C7_ZeroDestroysAndFrees ==
    [][ \A c \in Ctx :
          (destroyed = 0 /\ Delete(c)) =>
          (destroyed' = 1 /\ in_pool' /\ fault' = "none") ]_vars

\* C8: set_parent(p) increments use_count_ by exactly 1, makes get_parent()
\* equal to p, and changes none of id, kind and running.
C8_SetParentEffect ==
    [][ /\ (pc[Writer] = "idle" /\ pc'[Writer] = "sp_assert") =>
             /\ use_count_' = use_count_ + 1
             /\ UNCHANGED <<node_id, synth_, running_, parent_>>
        /\ (pc[Writer] = "sp_assert" /\ pc'[Writer] = "sp_assign") =>
             UNCHANGED nodeFields
        /\ (pc[Writer] = "sp_assign" /\ pc'[Writer] = "idle") =>
             /\ get_parent' = sp_parent
             /\ sp_parent \in Groups
             /\ UNCHANGED <<node_id, synth_, running_, use_count_>> ]_vars

C8_Witness ==
    /\ Live /\ Quiescent
    /\ get_parent \in Groups
    /\ TotalHandles = 0
    /\ use_count_ = 1

\* C9: after pause() is_running() is false and stays false after a second
\* pause(); after resume() it is true and stays true after a second resume().
C9_PauseResumeIdempotent ==
    destroyed = 0 =>
        /\ (flag_ops # <<>> /\ flag_ops[Len(flag_ops)] = "pause") => ~is_running
        /\ (flag_ops # <<>> /\ flag_ops[Len(flag_ops)] = "resume") => is_running
        /\ flag_ops = <<"pause", "pause">> => ~is_running
        /\ flag_ops = <<"resume", "resume">> => is_running

C9_Witness ==
    /\ destroyed = 0
    /\ flag_ops = <<"pause", "pause">>
    /\ ~is_running

\* C10: pause() and resume() change nothing but the running flag: parent,
\* use count, id and kind stay as they are and the node is neither
\* destroyed nor unlinked.
C10_PauseResumeFrame ==
    [][ flag_ops' # flag_ops =>
          UNCHANGED <<parent_, use_count_, node_id, synth_, handles,
                      destroyed, in_pool, fault, pc>> ]_vars

C10_Witness ==
    /\ Live
    /\ flag_ops = <<"pause", "resume">>
    /\ is_running
    /\ get_parent \in Groups
    /\ use_count_ >= 1

\* C18: a set_parent call made on a node that already has a parent leaves
\* the node as it was: use_count_ is not incremented on the way to the
\* failing check, and parent_ is not replaced.
C18_FailedSetParentChangesNothing ==
    [][ /\ (destroyed = 0 /\ parent_ # NullGroup
               /\ pc[Writer] = "idle" /\ pc'[Writer] = "sp_assert") =>
           use_count_' = use_count_
        /\ (destroyed = 0 /\ parent_ # NullGroup
               /\ pc[Writer] = "sp_assign" /\ pc'[Writer] = "idle") =>
           parent_' = parent_ ]_vars

C20_LinkUnlinkRoundTrip ==
    [][ (destroyed = 0 /\ trip # <<>>
            /\ pc[Writer] = "cp_release" /\ pc'[Writer] # "cp_release") =>
        /\ pc'[Writer] = "idle"
        /\ use_count_' = trip[1]
        /\ parent_' = NullGroup
        /\ UNCHANGED <<node_id, synth_, running_, destroyed>> ]_vars
\* ---- C11 ----
\* Nodes compare by id alone: a < b exactly when id(a) < id(b) and a == b
\* exactly when id(a) = id(b), whatever their kind, running flag, parent or
\* reference count (a lookup key has none of them); the order is irreflexive,
\* asymmetric, transitive and trichotomous, it is total on the live nodes, and
\* the index is traversed in ascending id.
Operands == {nodes[s] : s \in LiveSlots} \cup {Probe(i) : i \in Ids}

C11_OrderedByIdOnly ==
    /\ \A a \in Operands, b \in Operands :
          /\ lt(a, b) <=> (a.node_id < b.node_id)
          /\ eq(a, b) <=> (a.node_id = b.node_id)
    /\ \A a \in Operands : ~lt(a, a) /\ eq(a, a)
    /\ \A a \in Operands, b \in Operands :
          /\ lt(a, b) \/ lt(b, a) \/ eq(a, b)
          /\ ~(lt(a, b) /\ lt(b, a))
          /\ ~(lt(a, b) /\ eq(a, b))
    /\ \A a \in Operands, b \in Operands, c \in Operands :
          (lt(a, b) /\ lt(b, c)) => lt(a, c)
    /\ \A a \in LiveSlots, b \in LiveSlots :
          (a # b) => (lt(nodes[a], nodes[b]) \/ lt(nodes[b], nodes[a]))
    /\ \A i \in 1..Len(index), j \in 1..Len(index) :
          (i < j) => (nodes[index[i]].node_id < nodes[index[j]].node_id)

\* indexed nodes of both kinds, paused and running, under two parents,
\* the one built later coming first in the traversal
C11_Witness ==
    /\ Len(index) >= 2
    /\ index[1] > index[2]
    /\ \E a \in LiveSlots, b \in LiveSlots :
          /\ nodes[a].synth_ /\ ~nodes[b].synth_
          /\ nodes[a].running_ /\ ~nodes[b].running_
          /\ nodes[a].parent_ # nodes[b].parent_
          /\ nodes[a].node_id < nodes[b].node_id

C14_ExhaustionIsBadAlloc ==
    [][ \A n \in 1..MaxElems, T \in ElemSizes :
          (ret'.op = "allocate" /\ ret'.size = n * T /\ AdapterAllocate(n, T)) =>
             LET p == pool_malloc(pool, n * T)
             IN  /\ ret'.op = "allocate"
                 /\ (p = Null) => (ret'.status = "bad_alloc" /\ pool' = pool)
                 /\ (p # Null) => /\ ret'.status = "ok"
                                  /\ ret'.val = p
                                  /\ pool' = pool \cup {[at |-> p, size |-> n * T]}
                 /\ (ret'.status # "bad_alloc") => ret'.val # Null ]_vars

\* an allocate refused while other blocks are live
C14_Witness ==
    /\ ret.op = "allocate"
    /\ ret.status = "bad_alloc"
    /\ pool # {}

\* ---- C15 ----
\* max_size() of the adapter for elements of size sizeof(T) is the capacity
\* of the pool divided by sizeof(T), so max_size() * sizeof(T) <= capacity.
C15_MaxSizeIsCapacityOverElemSize ==
    [][ \A T \in ElemSizes :
          MaxSize(T) => /\ ret'.val = pool_get_max_size \div T
                        /\ ret'.val * T <= pool_get_max_size ]_vars

\* ---- C16 ----
\* The live allocations are disjoint, lie inside the pool and never total more
\* than its capacity; an allocation from a full pool fails and changes nothing;
\* an allocation of size k that follows the freeing of a block of size >= k
\* (the storage of a node released to 0 included) succeeds with a block of
\* size k.
RoundTrip(k) ==
    /\ (Used = Capacity) =>
          (ret'.status \in {"null", "bad_alloc"} /\ pool' = pool)
    /\ (last_freed >= k) =>
          (ret'.status = "ok" /\ [at |-> ret'.val, size |-> k] \in pool')

C16_ArenaRoundTrip ==
    /\ [](/\ Used <= Capacity
          /\ \A b \in pool : Cells(b) \subseteq Addrs
          /\ \A b \in pool, c \in pool : (b # c) => Cells(b) \cap Cells(c) = {})
    /\ [][ /\ \A k \in ElemSizes :
                (ret'.op = "new" /\ ret'.size = k /\ NodeNew(k)) => RoundTrip(k)
          /\ \A n \in 1..MaxElems, T \in ElemSizes :
                (ret'.op = "allocate" /\ ret'.size = n * T /\ AdapterAllocate(n, T))
                   => RoundTrip(n * T) ]_vars

\* a node built in the storage of a node released to 0, filling the pool again
C16_Witness ==
    /\ ret.op = "new"
    /\ ret.status = "ok"
    /\ ret.freed_before >= 1
    /\ arena_nodes[ret.val] >= 1
    /\ Used = Capacity

\* ---- C17 ----
\* Two adapters, of any element types, draw from the one pool of server_node:
\* a == b is true, a != b is false, and a == b is the negation of a != b.
C17_AllocatorsCompareEqual ==
    [][ \A T \in ElemSizes, U \in ElemSizes :
          AllocatorCompare(T, U) => /\ ret'.eq
                                    /\ ~ret'.ne
                                    /\ ret'.eq = ~ret'.ne ]_vars

====
